---- MODULE Spec2Model ----
(***************************************************************************)
(* A model of streamlit_app.py: the load-time clean-up of the job corpus,  *)
(* format_salary, the TF-IDF / cosine-similarity ranking behind the        *)
(* recommendation engine, the skill-gap analyzer and the resume match, the *)
(* country and remote listings, and the page as a state machine in which   *)
(* every user interaction re-executes the script from its first line.      *)
(***************************************************************************)
EXTENDS Integers, Sequences, FiniteSets, TLC

VARIABLES
    raw,               \* job_data.pkl as unpickled (line 10), before clean-up
    vectorizer,        \* tfidf_vectorizer.pkl (line 11): term |-> idf weight
    df,                \* the in-memory corpus after the clean-up of the last run
    job_input,         \* st.text_input, line 134
    country_select,    \* st.selectbox, line 154
    skills_input,      \* st.text_input, line 178
    experience_level,  \* st.selectbox, line 195
    resume_text,       \* st.text_area, line 196
    out,               \* what the last run of the script displayed, per section
    call               \* the last application of one of the script's functions

vars == <<raw, vectorizer, df, job_input, country_select, skills_input,
          experience_level, resume_text, out, call>>

(***************************************************************************)
(* Strings.  Python's str methods used by the script, character by         *)
(* character.                                                              *)
(***************************************************************************)
LowerAlpha == "abcdefghijklmnopqrstuvwxyz"
UpperAlpha == "ABCDEFGHIJKLMNOPQRSTUVWXYZ"

CharAt(s, i) == SubSeq(s, i, i)

CharsOf(s) == {CharAt(s, i) : i \in 1..Len(s)}

UpperChars == CharsOf(UpperAlpha)

\* str.lower() on one character
LowerChar(c) ==
    IF c \in UpperChars
    THEN CharAt(LowerAlpha, CHOOSE i \in 1..Len(UpperAlpha) : CharAt(UpperAlpha, i) = c)
    ELSE c

\* str.lower(), the characters from position i on
RECURSIVE LowerFrom(_, _)
LowerFrom(s, i) ==
    IF i > Len(s) THEN "" ELSE LowerChar(CharAt(s, i)) \o LowerFrom(s, i + 1)

lower(s) == LowerFrom(s, 1)

\* Python's `sub in s`
Contains(sub, s) ==
    \E i \in 1..(Len(s) - Len(sub) + 1) : SubSeq(s, i, i + Len(sub) - 1) = sub

IsSpace(c) == c \in {" ", "\t", "\n"}

\* str.strip(): leading and trailing whitespace removed
strip(s) ==
    LET kept == {i \in 1..Len(s) : ~IsSpace(CharAt(s, i))}
    IN  IF kept = {} THEN ""
        ELSE SubSeq(s, CHOOSE i \in kept : \A j \in kept : i <= j,
                       CHOOSE i \in kept : \A j \in kept : i >= j)

(***************************************************************************)
(* Numbers.  A rate is an integer; the experience multiplier is kept in    *)
(* tenths, so an adjusted rate is an exact number of tenths.  A fixed-     *)
(* point format rounds the double the script holds, not the exact          *)
(* quotient: the two differ only where the exact quotient lies half-way    *)
(* between two numerals, and there the nearest double decides.             *)
(***************************************************************************)
RECURSIVE Pow10(_)
Pow10(d) == IF d = 0 THEN 1 ELSE 10 * Pow10(d - 1)

\* a/b scaled by a power of two into [1, 2): <<a', b'>> with b' <= a' < 2b'.
\* The scaling moves the binary point only, so it leaves the significand of
\* the nearest double, and the side on which that double lies, unchanged.
RECURSIVE Normalised(_, _)
Normalised(a, b) ==
    IF a < b THEN Normalised(2 * a, b)
    ELSE IF a >= 2 * b THEN Normalised(a, 2 * b)
    ELSE <<a, b>>

\* `chunks` more groups of four bits of the binary expansion of r/b
\* (0 <= r < b): <<last bit produced, remainder>>.
RECURSIVE Significand(_, _, _, _)
Significand(r, b, chunks, last) ==
    IF chunks = 0 THEN <<last, r>>
    ELSE Significand((16 * r) % b, b, chunks - 1, ((16 * r) \div b) % 2)

\* The sign of fl(a/b) - a/b for a, b > 0, where fl rounds to the nearest
\* IEEE-754 double: the leading bit and 52 more, ties to even.
NearestDoubleSign(a, b) ==
    LET n    == Normalised(a, b)
        kept == Significand(n[1] - n[2], n[2], 13, 1)
        last == kept[1]
        rem  == kept[2]
    IN  IF rem = 0 THEN 0
        ELSE IF 2 * rem > n[2] THEN 1
        ELSE IF 2 * rem < n[2] THEN -1
        ELSE IF last = 1 THEN 1 ELSE -1

\* The numeral of a/b (a >= 0, b > 0) to d decimals, in units of 10^-d, as
\* Python's format(fl(a/b), ".df") rounds it.
FixedUnits(a, b, d) ==
    LET scaled == Pow10(d) * a
        t      == scaled \div b
        rem    == scaled % b
        up     == IF 2 * rem > b THEN TRUE
                  ELSE IF 2 * rem < b THEN FALSE
                  ELSE LET s == NearestDoubleSign(a, b)
                       IN  IF s > 0 THEN TRUE
                           ELSE IF s < 0 THEN FALSE
                           ELSE t % 2 = 1
    IN  IF up THEN t + 1 ELSE t

RECURSIVE ZeroPad(_, _)
ZeroPad(s, width) == IF Len(s) >= width THEN s ELSE ZeroPad("0" \o s, width)

\* f"{a/b:.df}" for d >= 1
Fixed(a, b, d) ==
    LET u == FixedUnits(a, b, d)
    IN  ToString(u \div Pow10(d)) \o "." \o ZeroPad(ToString(u % Pow10(d)), d)

(***************************************************************************)
(* format_salary, lines 31-56.                                             *)
(***************************************************************************)
\* Multiplier10 with the Mid-Level branch of lines 36-37 lost
Multiplier10_MidLevelFallsThrough(level) ==
    IF level = "Fresher" THEN 8
    ELSE IF level = "Senior" THEN 15
    ELSE 10

\* lines 33-39, in tenths
Multiplier10(level) ==
    IF level = "Fresher" THEN 8
    ELSE IF level = "Mid-Level" THEN 12
    ELSE IF level = "Senior" THEN 15
    ELSE 10

\* line 41, in tenths
AdjustedRate10(rate, level) == rate * Multiplier10(level)

\* format_salary with the thresholds of lines 44-53 compared against the rate
\* as passed in, before line 41 adjusts it
format_salary_RawThresholds(rate, country, level) ==
    LET adj10 == AdjustedRate10(rate, level)
        fmt   == IF Contains("india", lower(country))
                 THEN IF rate >= 100000 THEN <<"₹", 100000, 1, " Lakh">>
                      ELSE IF rate >= 1000 THEN <<"₹", 1000, 1, " Thousand">>
                      ELSE <<"₹", 1, 2, "/hr">>
                 ELSE IF rate >= 100000 THEN <<"$", 100000, 1, "K">>
                      ELSE IF rate >= 1000 THEN <<"$", 1000, 1, "K">>
                      ELSE <<"$", 1, 2, "/hr">>
    IN  fmt[1] \o Fixed(adj10, 10 * fmt[2], fmt[3]) \o fmt[4]

\* Each branch of lines 43-56 is one f-string: a currency sign, the divisor
\* and the precision of the number, and a suffix.
format_salary(rate, country, level) ==
    LET adj10 == AdjustedRate10(rate, level)
        fmt   == IF Contains("india", lower(country))
                 THEN IF adj10 >= 10 * 100000 THEN <<"₹", 100000, 1, " Lakh">>
                      ELSE IF adj10 >= 10 * 1000 THEN <<"₹", 1000, 1, " Thousand">>
                      ELSE <<"₹", 1, 2, "/hr">>
                 ELSE IF adj10 >= 10 * 100000 THEN <<"$", 100000, 1, "K">>
                      ELSE IF adj10 >= 10 * 1000 THEN <<"$", 1000, 1, "K">>
                      ELSE <<"$", 1, 2, "/hr">>
    IN  fmt[1] \o Fixed(adj10, 10 * fmt[2], fmt[3]) \o fmt[4]

(***************************************************************************)
(* The corpus.  A frame is [index, columns, rows]: the row labels, the set *)
(* of column names, and one row per record, a function from the columns    *)
(* to cells.  A cell is NaN (missing) or Some(value).                      *)
(***************************************************************************)
NaN == <<>>
Some(v) == <<v>>
isna(cell) == cell = NaN
ValueOf(cell) == cell[1]

\* job_types, line 19
job_types == <<"Permanent Full-time", "Part-time", "Work From Home", "On-site", "Contract">>

JobTypeSet == {job_types[i] : i \in 1..Len(job_types)}

\* lines 16-17: df.drop(columns=["id"], inplace=True)
DropId(frame) ==
    IF "id" \in frame.columns
    THEN [frame EXCEPT !.columns = @ \ {"id"},
                       !.rows = [p \in 1..Len(frame.rows) |->
                                    [c \in frame.columns \ {"id"} |-> frame.rows[p][c]]]]
    ELSE frame

\* The positions whose job_type the clean-up draws with random.choice and
\* stores.  Without a job_type column the list is assigned by position (line
\* 21).  With one, fillna (line 23) takes a pandas Series built from the list:
\* its labels are 0..n-1, and fillna aligns on the label, so a missing cell is
\* filled only when its row's label is one of 0..n-1.
FilledPositions(frame) ==
    IF "job_type" \notin frame.columns
    THEN 1..Len(frame.rows)
    ELSE {p \in 1..Len(frame.rows) :
            /\ isna(frame.rows[p]["job_type"])
            /\ frame.index[p] \in 0..(Len(frame.rows) - 1)}

\* lines 20-23; `drawn` maps each filled position to the job type drawn for it
FillJobType(frame, drawn) ==
    [frame EXCEPT !.columns = @ \cup {"job_type"},
                  !.rows = [p \in 1..Len(frame.rows) |->
                               [c \in frame.columns \cup {"job_type"} |->
                                   IF c = "job_type" /\ p \in DOMAIN drawn
                                   THEN Some(drawn[p])
                                   ELSE frame.rows[p][c]]]]

\* Series.fillna(value), lines 25 and 26
fillna(frame, column, value) ==
    [frame EXCEPT !.rows = [p \in 1..Len(frame.rows) |->
                               [frame.rows[p] EXCEPT ![column] =
                                   IF isna(@) THEN Some(value) ELSE @]]]

\* Data Cleanup, lines 16-26
Cleanup(frame, drawn) ==
    fillna(fillna(FillJobType(DropId(frame), drawn), "avg_hourly_rate", 0),
           "country", "Unknown")

\* Every outcome of the random draws of one clean-up
Cleanups(frame) ==
    {Cleanup(frame, drawn) : drawn \in [FilledPositions(DropId(frame)) -> JobTypeSet]}

(***************************************************************************)
(* Ranking.  A similarity score is kept as the square of the cosine, an    *)
(* exact fraction <<numerator, denominator>> in lowest terms; cosines of   *)
(* non-negative vectors are non-negative, so the squares order the records *)
(* as the cosines do.  Positions are counted from 1 (position p is iloc    *)
(* p - 1).                                                                 *)
(***************************************************************************)
ScoreLess(a, b) == a[1] * b[2] < b[1] * a[2]

PositionsOf(seq) == {seq[i] : i \in 1..Len(seq)}

Reverse(seq) == [i \in 1..Len(seq) |-> seq[Len(seq) + 1 - i]]

\* numpy's argsort with its default kind: the positions by ascending score.
\* The default sort is not stable, so the order among equal scores is
\* whatever the build's sort produces: every such order is an outcome.
RECURSIVE AscendingOrders(_, _)
AscendingOrders(similarity, left) ==
    IF left = {} THEN {<<>>}
    ELSE LET least == {i \in left : \A j \in left : ~ScoreLess(similarity[j], similarity[i])}
         IN  UNION {{<<i>> \o rest : rest \in AscendingOrders(similarity, left \ {i})} :
                      i \in least}

argsort(similarity) == AscendingOrders(similarity, 1..Len(similarity))

\* order[:k][::-1]: the slice taken from the wrong end
LastReversed_Head(order, k) ==
    Reverse(SubSeq(order, 1, IF Len(order) > k THEN k ELSE Len(order)))

\* order[-k:], the reversal lost
LastReversed_NotReversed(order, k) ==
    SubSeq(order, IF Len(order) > k THEN Len(order) - k + 1 ELSE 1, Len(order))

\* order[-k:][::-1], lines 140 and 184
LastReversed(order, k) ==
    Reverse(SubSeq(order, IF Len(order) > k THEN Len(order) - k + 1 ELSE 1, Len(order)))

\* similarity.argsort()[:5]: the five lowest, ascending
RecommendTopIdx_Lowest(similarity) ==
    {SubSeq(order, 1, IF Len(order) > 5 THEN 5 ELSE Len(order)) : order \in argsort(similarity)}

\* line 140: similarity.argsort()[-5:][::-1]
TopRecommended == 5
RecommendTopIdx(similarity) ==
    {LastReversed(order, TopRecommended) : order \in argsort(similarity)}

\* line 184: similarity.argsort()[-3:][::-1]
TopSkills == 3
SkillTopIdx(similarity) ==
    {LastReversed(order, TopSkills) : order \in argsort(similarity)}

\* argmax returning the last position that holds the maximum
argmax_LastMaximum(similarity) ==
    CHOOSE i \in 1..Len(similarity) :
        /\ \A j \in 1..Len(similarity) : ~ScoreLess(similarity[i], similarity[j])
        /\ \A j \in (i + 1)..Len(similarity) : ScoreLess(similarity[j], similarity[i])

\* numpy's argmax, line 203: the first position that holds the maximum
argmax(similarity) ==
    CHOOSE i \in 1..Len(similarity) :
        /\ \A j \in 1..Len(similarity) : ~ScoreLess(similarity[i], similarity[j])
        /\ \A j \in 1..(i - 1) : ScoreLess(similarity[j], similarity[i])

(***************************************************************************)
(* The vectorizer.  tfidf_vectorizer.pkl is a fitted TfidfVectorizer, here *)
(* a function from its vocabulary to the idf weight of each term (positive *)
(* integers: only their ratios matter to a cosine).  transform() applies   *)
(* the default analyzer (lower-case, then every maximal run of two or more *)
(* word characters) and weighs each term's count by its idf.               *)
(***************************************************************************)
WordChars == CharsOf(LowerAlpha) \cup CharsOf(UpperAlpha) \cup CharsOf("0123456789_")

\* The tokens of s from position i on; `run` holds the word characters read
\* since the last break.
RECURSIVE Runs(_, _, _)
Runs(s, i, run) ==
    LET closed == IF Len(run) >= 2 THEN <<run>> ELSE <<>>
    IN  IF i > Len(s) THEN closed
        ELSE IF CharAt(s, i) \in WordChars THEN Runs(s, i + 1, run \o CharAt(s, i))
        ELSE closed \o Runs(s, i + 1, "")

Tokenize(text) == Runs(lower(text), 1, "")

Count(tokens, term) == Cardinality({i \in 1..Len(tokens) : tokens[i] = term})

\* vectorizer.transform([text]), lines 137-138, before normalisation
transform(vec, text) ==
    LET tokens == Tokenize(text)
    IN  [term \in DOMAIN vec |-> Count(tokens, term) * vec[term]]

RECURSIVE Dot(_, _, _)
Dot(u, v, terms) ==
    IF terms = {} THEN 0
    ELSE LET term == CHOOSE x \in terms : TRUE
         IN  u[term] * v[term] + Dot(u, v, terms \ {term})

RECURSIVE GCD(_, _)
GCD(a, b) == IF b = 0 THEN a ELSE GCD(b, a % b)

\* cosine_similarity of two weight vectors, squared, in lowest terms; a zero
\* vector has similarity 0 to everything (sklearn divides a zero norm by 1)
Cosine2(u, v) ==
    LET d == Dot(u, v, DOMAIN u)
        n == Dot(u, u, DOMAIN u) * Dot(v, v, DOMAIN v)
    IN  IF d = 0 \/ n = 0 THEN <<0, 1>>
        ELSE <<(d * d) \div GCD(d * d, n), n \div GCD(d * d, n)>>

\* df["title"].astype(str): a missing title reads "nan"
TitleStr(row) == IF isna(row["title"]) THEN "nan" ELSE ValueOf(row["title"])

\* lines 137-139 (and 181-183, 200-202): the similarity of `text` to every title
RECURSIVE SimilarityFrom(_, _, _, _)
SimilarityFrom(vec, frame, query, p) ==
    IF p > Len(frame.rows) THEN <<>>
    ELSE <<Cosine2(query, transform(vec, TitleStr(frame.rows[p])))>>
            \o SimilarityFrom(vec, frame, query, p + 1)

Similarity(vec, frame, text) == SimilarityFrom(vec, frame, transform(vec, text), 1)

(***************************************************************************)
(* The sections of the page.  Each is what the script displays, given the  *)
(* cleaned corpus and the widgets' values.                                 *)
(***************************************************************************)
\* The columns shown in the tables, with "Formatted Salary" for Mid-Level
\* (lines 141-142, 156-158, 167-169)
WithSalary(row) ==
    [title            |-> row["title"],
     avg_hourly_rate  |-> row["avg_hourly_rate"],
     country          |-> row["country"],
     job_type         |-> row["job_type"],
     formatted_salary |-> format_salary(ValueOf(row["avg_hourly_rate"]),
                                        ValueOf(row["country"]), "Mid-Level")]

\* Job Recommendation Engine, lines 134-147: one outcome per order argsort
\* may return
Recommend(vec, frame, text) ==
    IF text # ""
    THEN {[shown   |-> "dataframe",
           top_idx |-> top_idx,
           results |-> [i \in 1..Len(top_idx) |-> WithSalary(frame.rows[top_idx[i]])]] :
             top_idx \in RecommendTopIdx(Similarity(vec, frame, text))}
    ELSE {[shown |-> "info", top_idx |-> <<>>, results |-> <<>>]}

\* Python's order on str, by code point, for the characters of LowerAlpha,
\* UpperAlpha and the punctuation below
CodeOrder == " ,-.0123456789" \o UpperAlpha \o "_" \o LowerAlpha

Code(c) == CHOOSE i \in 1..Len(CodeOrder) : CharAt(CodeOrder, i) = c

\* a < b, given that a and b agree before position i
RECURSIVE StrLessFrom(_, _, _)
StrLessFrom(a, b, i) ==
    IF i > Len(b) THEN FALSE
    ELSE IF i > Len(a) THEN TRUE
    ELSE IF CharAt(a, i) = CharAt(b, i) THEN StrLessFrom(a, b, i + 1)
    ELSE Code(CharAt(a, i)) < Code(CharAt(b, i))

StrLess(a, b) == StrLessFrom(a, b, 1)

RECURSIVE Sorted(_)
Sorted(strings) ==
    IF strings = {} THEN <<>>
    ELSE LET least == CHOOSE x \in strings : \A y \in strings \ {x} : StrLess(x, y)
         IN  <<least>> \o Sorted(strings \ {least})

\* line 153: sorted(df["country"].dropna().unique())
unique_countries(frame) ==
    Sorted({ValueOf(frame.rows[p]["country"]) :
              p \in {q \in 1..Len(frame.rows) : ~isna(frame.rows[q]["country"])}})

\* df[mask]: the rows at the positions `kept` from p on, in the frame's order
RECURSIVE RowsWhere(_, _, _)
RowsWhere(frame, kept, p) ==
    IF p > Len(frame.rows) THEN <<>>
    ELSE (IF p \in kept THEN <<WithSalary(frame.rows[p])>> ELSE <<>>)
            \o RowsWhere(frame, kept, p + 1)

\* The country filter comparing without regard to case
CountryFilter_IgnoringCase(frame, selected) ==
    LET kept == {p \in 1..Len(frame.rows) :
                   LET row == frame.rows[p]
                   IN  ~isna(row["country"]) /\ lower(ValueOf(row["country"])) = lower(selected)}
        filtered_jobs == RowsWhere(frame, kept, 1)
    IN  [options       |-> unique_countries(frame),
         shown         |-> IF filtered_jobs # <<>> THEN "dataframe" ELSE "warning",
         filtered_jobs |-> filtered_jobs]

\* Filter Jobs by Country, lines 153-161; `options` are the selectbox's
CountryFilter(frame, selected) ==
    LET kept == {p \in 1..Len(frame.rows) :
                   LET row == frame.rows[p]
                   IN  ~isna(row["country"]) /\ ValueOf(row["country"]) = selected}
        filtered_jobs == RowsWhere(frame, kept, 1)
    IN  [options       |-> unique_countries(frame),
         shown         |-> IF filtered_jobs # <<>> THEN "dataframe" ELSE "warning",
         filtered_jobs |-> filtered_jobs]

\* Remote Job Listings, lines 167-172
RemoteJobs(frame) ==
    LET kept == {p \in 1..Len(frame.rows) :
                   LET row == frame.rows[p]
                   IN  ~isna(row["title"]) /\ Contains("remote", lower(ValueOf(row["title"])))}
        remote_jobs == RowsWhere(frame, kept, 1)
    IN  IF remote_jobs # <<>>
        THEN [shown |-> "dataframe", remote_jobs |-> remote_jobs]
        ELSE [shown |-> "warning", remote_jobs |-> <<>>]

\* Skill Gap Analyzer, lines 178-189
SkillGap(vec, frame, text) ==
    IF text # ""
    THEN {[shown        |-> "table",
           top_idx      |-> top_idx,
           matched_jobs |-> [i \in 1..Len(top_idx) |->
                                [title    |-> frame.rows[top_idx[i]]["title"],
                                 job_type |-> frame.rows[top_idx[i]]["job_type"],
                                 country  |-> frame.rows[top_idx[i]]["country"]]]] :
             top_idx \in SkillTopIdx(Similarity(vec, frame, text))}
    ELSE {[shown |-> "info", top_idx |-> <<>>, matched_jobs |-> <<>>]}

\* `clicked` is what st.button returned in this run
NoResume ==
    [clicked |-> FALSE, shown |-> "nothing", best_match_idx |-> 0, best_job |-> <<>>,
     salary_display |-> ""]

\* The resume section testing resume_text itself, not resume_text.strip()
ResumeFeedback_Unstripped(vec, frame, clicked, text, level) ==
    IF ~clicked THEN NoResume
    ELSE IF text # ""
    THEN LET best_match_idx == argmax(Similarity(vec, frame, text))
             best_job       == frame.rows[best_match_idx]
         IN  [clicked        |-> TRUE,
              shown          |-> "result",
              best_match_idx |-> best_match_idx,
              best_job       |-> best_job,
              salary_display |-> format_salary(ValueOf(best_job["avg_hourly_rate"]),
                                               ValueOf(best_job["country"]), level)]
    ELSE [NoResume EXCEPT !.clicked = TRUE, !.shown = "warning"]

\* Resume Feedback Assistant, lines 198-218
ResumeFeedback(vec, frame, clicked, text, level) ==
    IF ~clicked THEN NoResume
    ELSE IF strip(text) # ""
    THEN LET best_match_idx == argmax(Similarity(vec, frame, text))
             best_job       == frame.rows[best_match_idx]
         IN  [clicked        |-> TRUE,
              shown          |-> "result",
              best_match_idx |-> best_match_idx,
              best_job       |-> best_job,
              salary_display |-> format_salary(ValueOf(best_job["avg_hourly_rate"]),
                                               ValueOf(best_job["country"]), level)]
    ELSE [NoResume EXCEPT !.clicked = TRUE, !.shown = "warning"]

(***************************************************************************)
(* The page.  The script has no callbacks: its sections are top-level      *)
(* code, so every interaction with a widget runs the whole script again,   *)
(* from the loading of the artifacts (lines 10-11) and the clean-up (lines *)
(* 16-26) to the last section, with the widgets' current values.           *)
(***************************************************************************)
\* What one run displays, given the corpus it cleaned: one outcome per pair of
\* orders the two argsorts may return
Page(vec, frame, text, selected, skills, clicked, resume, level) ==
    {[search  |-> search,
      country |-> CountryFilter(frame, selected),
      remote  |-> RemoteJobs(frame),
      skills  |-> matched,
      resume  |-> ResumeFeedback(vec, frame, clicked, resume, level)] :
        search \in Recommend(vec, frame, text), matched \in SkillGap(vec, frame, skills)}

\* One run of the script, lines 10-218
ScriptRun(text, selected, skills, clicked, resume, level) ==
    /\ \E cleaned \in Cleanups(raw) :
          /\ df' = cleaned
          /\ out' \in Page(vectorizer, df', text, selected, skills, clicked, resume, level)
    /\ UNCHANGED <<raw, vectorizer, call>>

\* The values the widgets are given
JobInputs == {"", "python java"}
SkillInputs == {"", "Java, SQL"}
ResumeTexts == {"", " \n", "Java developer"}

\* line 134: the search field is edited
EnterJobInput(text) ==
    /\ text # job_input
    /\ job_input' = text
    /\ ScriptRun(text, country_select, skills_input, FALSE, resume_text, experience_level)
    /\ UNCHANGED <<country_select, skills_input, experience_level, resume_text>>

\* line 154: a country is picked among the selectbox's options
SelectCountry(selected) ==
    /\ selected \in PositionsOf(unique_countries(df))
    /\ selected # country_select
    /\ country_select' = selected
    /\ ScriptRun(job_input, selected, skills_input, FALSE, resume_text, experience_level)
    /\ UNCHANGED <<job_input, skills_input, experience_level, resume_text>>

\* line 178: the skills field is edited
EnterSkills(text) ==
    /\ text # skills_input
    /\ skills_input' = text
    /\ ScriptRun(job_input, country_select, text, FALSE, resume_text, experience_level)
    /\ UNCHANGED <<job_input, country_select, experience_level, resume_text>>

\* line 195: an experience level is picked
SelectExperience(level) ==
    /\ level # experience_level
    /\ experience_level' = level
    /\ ScriptRun(job_input, country_select, skills_input, FALSE, resume_text, level)
    /\ UNCHANGED <<job_input, country_select, skills_input, resume_text>>

\* line 196: the resume text area is edited
EnterResume(text) ==
    /\ text # resume_text
    /\ resume_text' = text
    /\ ScriptRun(job_input, country_select, skills_input, FALSE, text, experience_level)
    /\ UNCHANGED <<job_input, country_select, skills_input, experience_level>>

\* line 198: "Analyze Resume" is clicked
ClickAnalyze ==
    /\ ScriptRun(job_input, country_select, skills_input, TRUE, resume_text, experience_level)
    /\ UNCHANGED <<job_input, country_select, skills_input, experience_level, resume_text>>

(***************************************************************************)
(* The functions applied one at a time: Init draws the arguments, the      *)
(* action applies the function.                                            *)
(***************************************************************************)
MaxN == 6      \* the longest similarity vector drawn
MaxRows == 2   \* the most records of a raw corpus drawn

Rates == {0, 1, 999, 1000, 1250, 2250, 83333, 99999, 100000, 115000, 120000, 125000, 150000}
Levels == {"Fresher", "Mid-Level", "Senior"}   \* the options of line 195
Countries == {"India", "INDIA", "United States", "Unknown", "", "West Indian Ocean"}
ScoreValues == {<<0, 1>>, <<1, 2>>, <<1, 1>>}

SimilarityVectors == UNION {[1..n -> ScoreValues] : n \in 1..MaxN}

\* Raw records as the artifact may hold them: any of the fillable cells missing
RawRows ==
    {[title |-> Some("Python Developer"), avg_hourly_rate |-> Some(120000),
      country |-> Some("India"), job_type |-> Some("Contract")],
     [title |-> Some("Remote Java"), avg_hourly_rate |-> NaN,
      country |-> NaN, job_type |-> NaN],
     [title |-> Some("Java"), avg_hourly_rate |-> Some(1250),
      country |-> Some("United States"), job_type |-> Some("Part-time")]}

WithoutColumn(row, column) == [c \in (DOMAIN row) \ {column} |-> row[c]]

WithId(row, id) == [c \in (DOMAIN row) \cup {"id"} |-> IF c = "id" THEN Some(id) ELSE row[c]]

\* The raw frames drawn: 1..MaxRows records, with or without the optional
\* job_type and id columns, with the default row labels 0..n-1 or with the
\* labels a frame keeps after rows were dropped upstream (here 1..n).
RawFrames ==
    UNION {
      {[index   |-> [p \in 1..n |-> p - 1 + shift],
        columns |-> ({"title", "avg_hourly_rate", "country"}
                       \cup (IF jt THEN {"job_type"} ELSE {})
                       \cup (IF id THEN {"id"} ELSE {})),
        rows    |-> [p \in 1..n |->
                       LET r1 == IF jt THEN rows[p] ELSE WithoutColumn(rows[p], "job_type")
                       IN  IF id THEN WithId(r1, 100 + p) ELSE r1]] :
         rows \in [1..n -> RawRows], shift \in {0, 1}, jt \in BOOLEAN, id \in BOOLEAN} :
      n \in 1..MaxRows}

\* The fitted vectorizers drawn: one whose vocabulary holds every term of the
\* titles, one fitted without "python"
Vectorizers ==
    {[term \in {"python", "developer", "java", "remote"} |->
         IF term = "developer" THEN 1 ELSE 2],
     [term \in {"developer", "java", "remote"} |-> 1]}

\* Cleaned corpora: the clean-ups of the raw frames that have a job_type
\* column and the default row labels
CleanFrames ==
    UNION {Cleanups(frame) :
             frame \in {f \in RawFrames : "job_type" \in f.columns /\ f.index[1] = 0}}

\* Texts typed into the search field and the resume text area
Texts == {"", " \n", "python java", "Remote SQL", "Java developer"}

Idle ==
    /\ raw = <<>>
    /\ vectorizer = <<>>
    /\ df = <<>>
    /\ job_input = ""
    /\ country_select = ""
    /\ skills_input = ""
    /\ experience_level = "Fresher"
    /\ resume_text = ""
    /\ out = <<>>

InitFn ==
    /\ Idle
    /\ call \in
         [fn : {"format_salary"}, rate : Rates, country : Countries,
          experience_level : Levels \cup {"Intern"}, returned : {FALSE}, result : {""}]
         \cup [fn : {"recommend_top_idx", "skill_top_idx"}, similarity : SimilarityVectors,
               returned : {FALSE}, result : {<<>>}]
         \cup [fn : {"cleanup"}, frame : RawFrames, returned : {FALSE}, result : {<<>>}]
         \cup [fn : {"recommend"}, vectorizer : Vectorizers, frame : CleanFrames,
               job_input : Texts, returned : {FALSE}, result : {<<>>}]
         \cup [fn : {"resume_feedback"}, vectorizer : Vectorizers, frame : CleanFrames,
               resume_text : Texts, experience_level : Levels,
               returned : {FALSE}, result : {<<>>}]
         \cup [fn : {"country_filter"},
               frame : {f \in RawFrames : "job_type" \in f.columns},
               country_select : Countries, returned : {FALSE}, result : {<<>>}]

Returns(value) ==
    /\ call' = [call EXCEPT !.returned = TRUE, !.result = value]
    /\ UNCHANGED <<raw, vectorizer, df, job_input, country_select, skills_input,
                   experience_level, resume_text, out>>

Pending(fn) == call.fn = fn /\ ~call.returned

CallFormatSalary ==
    /\ Pending("format_salary")
    /\ Returns(format_salary(call.rate, call.country, call.experience_level))

CallRecommendTopIdx ==
    /\ Pending("recommend_top_idx")
    /\ \E top_idx \in RecommendTopIdx(call.similarity) : Returns(top_idx)

CallSkillTopIdx ==
    /\ Pending("skill_top_idx")
    /\ \E top_idx \in SkillTopIdx(call.similarity) : Returns(top_idx)

CallCleanup ==
    /\ Pending("cleanup")
    /\ \E cleaned \in Cleanups(call.frame) : Returns(cleaned)

\* lines 134-147 on a cleaned corpus
CallRecommend ==
    /\ Pending("recommend")
    /\ \E search \in Recommend(call.vectorizer, call.frame, call.job_input) : Returns(search)

\* lines 198-218 on a cleaned corpus, the button clicked
CallResumeFeedback ==
    /\ Pending("resume_feedback")
    /\ Returns(ResumeFeedback(call.vectorizer, call.frame, TRUE, call.resume_text,
                              call.experience_level))

\* lines 16-26 and 153-161: the country section over the clean-up of a raw
\* corpus, for any country handed to the filter
CallCountryFilter ==
    /\ Pending("country_filter")
    /\ \E cleaned \in Cleanups(call.frame) :
          Returns([df |-> cleaned, section |-> CountryFilter(cleaned, call.country_select)])

NextFn ==
    \/ CallFormatSalary
    \/ CallRecommendTopIdx
    \/ CallSkillTopIdx
    \/ CallCleanup
    \/ CallRecommend
    \/ CallResumeFeedback
    \/ CallCountryFilter

SpecFn == InitFn /\ [][NextFn]_vars
(***************************************************************************)
(* The page as a state machine: Init is the page after its first run, and  *)
(* each action is one interaction and the run it triggers.                 *)
(***************************************************************************)
\* The corpora the page is run on: two records under the default row labels,
\* a job_type column in which the second record's value is missing
AppCorpora ==
    {frame \in RawFrames :
        /\ frame.columns = {"title", "avg_hourly_rate", "country", "job_type"}
        /\ frame.index = <<0, 1>>
        /\ ~isna(frame.rows[1]["job_type"])
        /\ isna(frame.rows[2]["job_type"])}

Init ==
    /\ raw \in AppCorpora
    /\ vectorizer \in {vec \in Vectorizers : "python" \in DOMAIN vec}
    /\ df \in Cleanups(raw)
    /\ job_input = ""
    /\ country_select = unique_countries(df)[1]
    /\ skills_input = ""
    /\ experience_level = "Fresher"
    /\ resume_text = ""
    /\ out \in Page(vectorizer, df, "", country_select, "", FALSE, "", "Fresher")
    /\ call = [fn |-> "none", returned |-> TRUE, result |-> <<>>]

Next ==
    \/ \E text \in JobInputs : EnterJobInput(text)
    \/ \E selected \in Countries \cup {"Unknown"} : SelectCountry(selected)
    \/ \E text \in SkillInputs : EnterSkills(text)
    \/ \E level \in Levels : SelectExperience(level)
    \/ \E text \in ResumeTexts : EnterResume(text)
    \/ ClickAnalyze

Spec == Init /\ [][Next]_vars

(***************************************************************************)
(* Claims about the functions, checked under SpecFn.                       *)
(***************************************************************************)
Returned(fn) == call.fn = fn /\ call.returned

\* The display string the salary rules give an adjusted rate (in tenths) and
\* a country: the currency by the substring "india" of the lower-cased
\* country, the scale by the adjusted rate.
SalaryOf(adj10, country) ==
    LET inr  == Contains("india", lower(country))
        sign == IF inr THEN "₹" ELSE "$"
    IN  IF adj10 >= 10 * 100000
        THEN sign \o Fixed(adj10, 10 * 100000, 1) \o (IF inr THEN " Lakh" ELSE "K")
        ELSE IF adj10 >= 10 * 1000 /\ adj10 < 10 * 100000
        THEN sign \o Fixed(adj10, 10 * 1000, 1) \o (IF inr THEN " Thousand" ELSE "K")
        ELSE sign \o Fixed(adj10, 10, 2) \o "/hr"

\* C1 as stated: format_salary applies multiplier 1.0 to "Mid-Level", so the
\* Mid-Level result is formatted from the unadjusted rate, and
\* format_salary(120000, "India", "Mid-Level") is "₹1.2 Lakh".
C1_MidLevelUnadjusted ==
    (Returned("format_salary") /\ call.experience_level = "Mid-Level")
        => /\ call.result = SalaryOf(10 * call.rate, call.country)
           /\ (call.rate = 120000 /\ call.country = "India") => call.result = "₹1.2 Lakh"

\* C1 amended: format_salary applies multiplier 1.2 to "Mid-Level" (only an
\* unrecognized level keeps the base 1.0), so the Mid-Level result is
\* formatted from 1.2 times the rate, and
\* format_salary(120000, "India", "Mid-Level") is "₹1.4 Lakh".
C1_MidLevelTimesOnePointTwo ==
    /\ (Returned("format_salary") /\ call.experience_level = "Mid-Level")
          => /\ call.result = SalaryOf(12 * call.rate, call.country)
             /\ (call.rate = 120000 /\ call.country = "India") => call.result = "₹1.4 Lakh"
    /\ (Returned("format_salary") /\ call.experience_level \notin Levels)
          => call.result = SalaryOf(10 * call.rate, call.country)

C1_Witness ==
    /\ Returned("format_salary")
    /\ call.experience_level = "Mid-Level"
    /\ call.rate = 120000
    /\ call.country = "India"
    /\ call.result = "₹1.4 Lakh"

\* C5: for every rate >= 0 and country, format_salary picks the currency by
\* the substring "india" of the lower-cased country and the scale by the
\* thresholds 100000 and 1000, compared against the rate after the experience
\* multiplier, not the raw rate.
C5_CurrencyAndScale ==
    Returned("format_salary")
        => LET adj10 == AdjustedRate10(call.rate, call.experience_level)
               inr   == Contains("india", lower(call.country))
           IN  /\ call.result = SalaryOf(adj10, call.country)
               /\ (inr /\ adj10 >= 1000000) =>
                     call.result = "₹" \o Fixed(adj10, 1000000, 1) \o " Lakh"
               /\ (inr /\ adj10 >= 10000 /\ adj10 < 1000000) =>
                     call.result = "₹" \o Fixed(adj10, 10000, 1) \o " Thousand"
               /\ (inr /\ adj10 < 10000) =>
                     call.result = "₹" \o Fixed(adj10, 10, 2) \o "/hr"
               /\ (~inr /\ adj10 >= 1000000) =>
                     call.result = "$" \o Fixed(adj10, 1000000, 1) \o "K"
               /\ (~inr /\ adj10 >= 10000 /\ adj10 < 1000000) =>
                     call.result = "$" \o Fixed(adj10, 10000, 1) \o "K"
               /\ (~inr /\ adj10 < 10000) =>
                     call.result = "$" \o Fixed(adj10, 10, 2) \o "/hr"
               /\ (call.rate = 0 /\ call.country = "India"
                     /\ call.experience_level = "Fresher") => call.result = "₹0.00/hr"

\* A raw rate under 100000 that the Senior multiplier lifts over it, in a
\* country matched by substring and case-insensitively
C5_Witness ==
    /\ Returned("format_salary")
    /\ call.rate = 99999
    /\ call.experience_level = "Senior"
    /\ call.country = "West Indian Ocean"
    /\ call.result = "₹1.5 Lakh"

\* The k of the section a top-index call belongs to
KOf(fn) == IF fn = "recommend_top_idx" THEN TopRecommended ELSE TopSkills

ReturnedTopIdx == (Returned("recommend_top_idx") \/ Returned("skill_top_idx"))

Min(a, b) == IF a < b THEN a ELSE b

\* C2: the top-k selection (k = 5 and k = 3) returns exactly min(k, n)
\* distinct records of the corpus, their scores never increase from one
\* returned item to the next, and no record left out scores strictly higher
\* than a returned one.
C2_TopK ==
    ReturnedTopIdx
        => LET sim == call.similarity
               top == call.result
               n   == Len(sim)
           IN  /\ Len(top) = Min(KOf(call.fn), n)
               /\ PositionsOf(top) \subseteq 1..n
               /\ \A i, j \in 1..Len(top) : i # j => top[i] # top[j]
               /\ \A i \in 1..(Len(top) - 1) : ~ScoreLess(sim[top[i]], sim[top[i + 1]])
               /\ \A p \in (1..n) \ PositionsOf(top) :
                     \A i \in 1..Len(top) : ~ScoreLess(sim[top[i]], sim[p])

\* More records than k = 5, three different scores among them
C2_Witness ==
    /\ Returned("recommend_top_idx")
    /\ Len(call.similarity) > TopRecommended
    /\ Len(call.result) = TopRecommended
    /\ Cardinality(PositionsOf(call.similarity)) = 3

\* C3 as stated: ties are broken by corpus order: of two records with equal
\* score the one with the smaller index is ranked first, and is the one kept
\* when only one of them fits in the top k.
C3_TiesByCorpusOrder ==
    ReturnedTopIdx
        => LET sim == call.similarity
               top == call.result
           IN  /\ \A i, j \in 1..Len(top) :
                     (i < j /\ sim[top[i]] = sim[top[j]]) => top[i] < top[j]
               /\ \A p, q \in 1..Len(sim) :
                     (p < q /\ sim[p] = sim[q] /\ q \in PositionsOf(top))
                        => p \in PositionsOf(top)

\* C3 amended: only different scores are ordered: of two records with
\* different scores the higher one is ranked first when both are returned and
\* is the one kept when only one fits; the order among equal scores is left to
\* argsort's default (unstable) sort and the reversal, not to corpus order.
C3_HigherScoreFirst ==
    ReturnedTopIdx
        => LET sim == call.similarity
               top == call.result
           IN  /\ \A i, j \in 1..Len(top) :
                     ScoreLess(sim[top[j]], sim[top[i]]) => i < j
               /\ \A p, q \in 1..Len(sim) :
                     (ScoreLess(sim[q], sim[p]) /\ q \in PositionsOf(top))
                        => p \in PositionsOf(top)

\* Two records tie across the cut of the top 3, and a higher one is kept
C3_Witness ==
    /\ Returned("skill_top_idx")
    /\ Len(call.similarity) = 4
    /\ call.similarity[1] = call.similarity[2]
    /\ call.similarity[2] = call.similarity[3]
    /\ ScoreLess(call.similarity[1], call.similarity[4])
    /\ call.result[1] = 4
    /\ 1 \notin PositionsOf(call.result)

\* C4 as stated: after the clean-up every record has a title, a rate that is
\* defined and >= 0, a non-empty country and a job_type of the five.
C4_EveryRecordComplete ==
    Returned("cleanup")
        => \A p \in 1..Len(call.result.rows) :
              LET row == call.result.rows[p]
              IN  /\ ~isna(row["title"])
                  /\ ~isna(row["avg_hourly_rate"])
                  /\ ValueOf(row["avg_hourly_rate"]) >= 0
                  /\ ~isna(row["country"])
                  /\ ValueOf(row["country"]) # ""
                  /\ "job_type" \in DOMAIN row
                  /\ ~isna(row["job_type"])
                  /\ ValueOf(row["job_type"]) \in JobTypeSet

\* C6: the resume match is a single record whose score is the maximum over
\* the corpus, the one with the smallest index among those that share the
\* maximum, and the salary shown is format_salary of its rate and country with
\* the experience level selected.
C6_ResumeBestMatch ==
    (Returned("resume_feedback") /\ call.result.shown = "result")
        => LET sim  == Similarity(call.vectorizer, call.frame, call.resume_text)
               best == call.result.best_match_idx
               row  == call.frame.rows[best]
           IN  /\ best \in 1..Len(sim)
               /\ \A p \in 1..Len(sim) : ~ScoreLess(sim[best], sim[p])
               /\ \A p \in 1..(best - 1) : sim[p] # sim[best]
               /\ call.result.best_job = row
               /\ call.result.salary_display =
                     format_salary(ValueOf(row["avg_hourly_rate"]), ValueOf(row["country"]),
                                   call.experience_level)
               /\ call.result.salary_display =
                     SalaryOf(ValueOf(row["avg_hourly_rate"])
                                 * Multiplier10(call.experience_level),
                              ValueOf(row["country"]))

\* Two records share a positive maximum, and the level is not the tables' one
C6_Witness ==
    /\ Returned("resume_feedback")
    /\ call.result.shown = "result"
    /\ call.experience_level = "Senior"
    /\ call.result.best_match_idx = 1
    /\ LET sim == Similarity(call.vectorizer, call.frame, call.resume_text)
       IN  /\ Len(sim) >= 2
           /\ sim[2] = sim[1]
           /\ sim[1] # <<0, 1>>

\* The tokens of a title, and the titles a token is present in
TitleTokens(frame, p) == PositionsOf(Tokenize(TitleStr(frame.rows[p])))

TitlesWith(frame, token) == {p \in 1..Len(frame.rows) : token \in TitleTokens(frame, p)}

\* The text and the displayed best position of a returned search or resume
\* match: <<text, position>>, or <<>> when nothing was ranked
Ranked ==
    IF Returned("recommend") /\ call.result.shown = "dataframe"
    THEN <<call.job_input, call.result.top_idx[1]>>
    ELSE IF Returned("resume_feedback") /\ call.result.shown = "result"
    THEN <<call.resume_text, call.result.best_match_idx>>
    ELSE <<>>

\* C9 as stated: a query containing a token present in exactly one title has
\* that title top-ranked, with score > 0, whatever else the query contains.
C9_SoleTitleTopRanked ==
    Ranked # <<>>
        => LET sim == Similarity(call.vectorizer, call.frame, Ranked[1])
           IN  \A token \in PositionsOf(Tokenize(Ranked[1])) :
                  \A p \in 1..Len(sim) :
                     TitlesWith(call.frame, token) = {p}
                        => (Ranked[2] = p /\ sim[p] # <<0, 1>>)

\* C9 amended: a query containing a token of the vectorizer's vocabulary that
\* is present in exactly one title, none of whose other vocabulary tokens is
\* present in any other title, has that title top-ranked, with score > 0.
C9_SoleTitleUnrivalled ==
    Ranked # <<>>
        => LET sim   == Similarity(call.vectorizer, call.frame, Ranked[1])
               known == PositionsOf(Tokenize(Ranked[1])) \cap DOMAIN call.vectorizer
           IN  \A token \in known :
                  \A p \in 1..Len(sim) :
                     (/\ TitlesWith(call.frame, token) = {p}
                      /\ \A other \in known : TitlesWith(call.frame, other) \subseteq {p})
                        => (Ranked[2] = p /\ sim[p] # <<0, 1>>)

\* "remote" is in the second title only, "sql" is in no vocabulary
C9_Witness ==
    /\ Returned("recommend")
    /\ call.job_input = "Remote SQL"
    /\ Len(call.frame.rows) = 2
    /\ TitlesWith(call.frame, "remote") = {2}
    /\ call.result.top_idx[1] = 2

\* The positions of S in ascending order
RECURSIVE Ascending(_)
Ascending(S) ==
    IF S = {} THEN <<>>
    ELSE LET least == CHOOSE x \in S : \A y \in S : x <= y
         IN  <<least>> \o Ascending(S \ {least})

\* C10: the country filter lists exactly the records whose country equals the
\* selected one, in corpus order; a country not in the corpus gives the empty
\* result and the warning; the options are exactly the distinct countries of
\* the cleaned corpus, "Unknown" among them when a country was missing.
C10_CountryFilter ==
    Returned("country_filter")
        => LET frame    == call.result.df
               section  == call.result.section
               matching == Ascending({p \in 1..Len(frame.rows) :
                                        frame.rows[p]["country"] = Some(call.country_select)})
           IN  /\ Len(section.filtered_jobs) = Len(matching)
               /\ \A i \in 1..Len(matching) :
                     \A c \in {"title", "avg_hourly_rate", "country", "job_type"} :
                        section.filtered_jobs[i][c] = frame.rows[matching[i]][c]
               /\ section.shown = IF matching = <<>> THEN "warning" ELSE "dataframe"
               /\ PositionsOf(section.options)
                     = {ValueOf(frame.rows[p]["country"]) : p \in 1..Len(frame.rows)}
               /\ \A i, j \in 1..Len(section.options) :
                     i # j => section.options[i] # section.options[j]
               /\ (\E p \in 1..Len(call.frame.rows) : isna(call.frame.rows[p]["country"]))
                     => \E i \in 1..Len(section.options) : section.options[i] = "Unknown"

\* A record whose country was missing is listed under "Unknown", the other
\* record is not
C10_Witness ==
    /\ Returned("country_filter")
    /\ call.country_select = "Unknown"
    /\ Len(call.frame.rows) = 2
    /\ isna(call.frame.rows[1]["country"])
    /\ ~isna(call.frame.rows[2]["country"])
    /\ call.result.section.shown = "dataframe"
    /\ Len(call.result.section.filtered_jobs) = 1

(***************************************************************************)
(* Claims about the page, checked under Spec.                              *)
(***************************************************************************)
\* C7 as stated: no interaction changes a record, the number or order of the
\* records or the columns of the in-memory corpus.
C7_CorpusReadOnly == [][df' = df]_vars

Blank(text) == \A i \in 1..Len(text) : IsSpace(CharAt(text, i))

\* C8: an empty search or skills field shows the prompt and ranks nothing; a
\* click on "Analyze Resume" with blank text shows the warning, matches
\* nothing and formats no salary; without a click the resume section
\* computes nothing.
C8_InputGating ==
    /\ job_input = ""
          => out.search = [shown |-> "info", top_idx |-> <<>>, results |-> <<>>]
    /\ skills_input = ""
          => out.skills = [shown |-> "info", top_idx |-> <<>>, matched_jobs |-> <<>>]
    /\ (out.resume.clicked /\ Blank(resume_text))
          => /\ out.resume.shown = "warning"
             /\ out.resume.best_match_idx = 0
             /\ out.resume.best_job = <<>>
             /\ out.resume.salary_display = ""
    /\ ~out.resume.clicked
          => /\ out.resume.shown = "nothing"
             /\ out.resume.best_match_idx = 0
             /\ out.resume.best_job = <<>>
             /\ out.resume.salary_display = ""

\* The button clicked on whitespace, the search field empty, skills given
C8_Witness ==
    /\ out.resume.clicked
    /\ resume_text = " \n"
    /\ out.resume.shown = "warning"
    /\ job_input = ""
    /\ out.search.shown = "info"
    /\ skills_input # ""
    /\ out.skills.shown = "table"
====
